---- MODULE Spec2Model ----
(***************************************************************************)
(* A model of the remote-access layer of the graph database:               *)
(*   - the vertex traversal scheduler  (plugins/host/src/util.rs, map)     *)
(*   - the legacy client's connection retry loop                           *)
(*     (bin/src/common/client_datastore.rs, ClientTransaction::execute)    *)
(*   - the streaming client (proto/src/client.rs: Client::new,             *)
(*     create_vertex, get, bulk_insert)                                    *)
(***************************************************************************)
EXTENDS Integers, Sequences, FiniteSets, TLC

\* ---------------------------------------------------------------- bounds
MaxId == 4              \* vertex ids are drawn from 1..MaxId
MaxQueryLimit == 2      \* mapper.query_limit() is drawn from 0..MaxQueryLimit
MaxNumWorkers == 3      \* mapper.num_workers() is drawn from 0..MaxNumWorkers
MaxPort == 2            \* ports are drawn from 1..MaxPort
MaxCalls == 2           \* execute calls made on one transaction
MaxSmallBatch == 2      \* bulk_insert batches of 0..MaxSmallBatch items, and
MaxOver == 1            \* of CHANNEL_CAPACITY..CHANNEL_CAPACITY+MaxOver items
MaxStream == 3          \* the server's answer to get is a stream of 0..MaxStream elements
MaxValue == 2           \* convertible stream values are 1..MaxValue
MaxClientCalls == 2     \* operation calls made on one streaming client

\* ---------------------------------------------------------------- program constants
MaxAttempts == 5        \* for _ in 0..5
CHANNEL_CAPACITY == 100 \* const CHANNEL_CAPACITY: usize = 100

\* ---------------------------------------------------------------- state
VARIABLES
    \* inputs of map(): the static graph behind the transaction and the mapper
    graph,                  \* set of vertex ids
    mapper_num_workers,     \* VertexMapper::num_workers()
    mapper_query_limit,     \* VertexMapper::query_limit()
    \* locals of map() and the orchestrating thread's position
    mpc,
    pool,                   \* number of threads of the ThreadPool
    query_limit,
    last_err,               \* the shared Arc<Mutex<Option<error>>>
    last_id,                \* Option<Uuid>; 0 is None
    vertices,               \* the rest of the page being dispatched
    is_last_query,
    map_result,
    \* the thread pool: jobs are numbered by their position in submitted
    submitted,              \* vertex of every job given to pool.execute, in order
    nstarted,               \* jobs 1..nstarted left the queue (FIFO)
    running,                \* jobs whose closure is executing
    completed,              \* jobs whose closure has returned
    \* history
    observed,               \* the last is_some() test of line 34 returned true
    fetches,                \* one record per get_vertices call
    first_rec,              \* first failure stored into last_err
    last_rec,               \* most recent failure stored into last_err
    rec_pending             \* a failure was stored while other jobs were queued or running

map_vars == <<graph, mapper_num_workers, mapper_query_limit, mpc, pool, query_limit,
              last_err, last_id, vertices, is_last_query, map_result,
              submitted, nstarted, running, completed,
              observed, fetches, first_rec, last_rec, rec_pending>>

VARIABLES
    \* the server the legacy client talks to (environment)
    server,                 \* "absent", "starting", "ready" or "faulty"
    \* ClientDatastore and ClientTransaction
    ds,                     \* ClientDatastore.port; 0 before ClientDatastore::new
    tx,                     \* ClientTransaction.port; 0 before transaction()
    \* locals of ClientTransaction::execute and the caller's position
    lpc,
    addr,                   \* port of the resolved loopback address
    iter,                   \* completed iterations of for _ in 0..5
    conn,                   \* attempt that opened the current connection; 0 is none
    ret,                    \* value returned by execute
    \* history of the current execute call
    calls,                  \* execute calls begun
    attempts,               \* TcpStream::connect calls
    sleeps,                 \* sleep(1s) calls
    pings,                  \* ping requests sent
    ops,                    \* connection of every operation request sent
    log                     \* outcome of every attempt

legacy_vars == <<server, ds, tx, lpc, addr, iter, conn, ret,
                 calls, attempts, sleeps, pings, ops, log>>

VARIABLES
    \* Client::bulk_insert: the foreground call
    items,                  \* the Vec<BulkInsertItem> argument
    bpc,                    \* position of the foreground call
    bulk_last_err,          \* the shared Arc<Mutex<Option<ClientError>>> last_err
    bret,                   \* value returned by bulk_insert
    \* the spawned producer task
    ppc,                    \* position of the producer task
    next,                   \* items 1..next-1 were enqueued
    \* the mpsc channel
    chan,                   \* items enqueued and not yet taken
    rx,                     \* "none", "open", "ended" or "closed"
    \* the server side of the bulk stream
    received,               \* items the server has observed, in order
    eos,                    \* the server has observed the end of the stream
    resp,                   \* response that arrived: "none", "ok" or "err"
    \* history
    err_before_resp         \* last_err was set before the response arrived

bulk_vars == <<items, bpc, bulk_last_err, bret, ppc, next, chan, rx,
               received, eos, resp, err_before_resp>>

VARIABLES
    \* Client::new and the operations of the streaming client
    cpc,                    \* position of the caller
    new_ret,                \* value returned by Client::new
    connects,               \* ProtoClient::connect calls
    ccalls,                 \* operation calls begun
    creq,                   \* operation of the current call
    sent,                   \* requests sent by the current operation call
    cret,                   \* value returned by the current operation call
    \* Client::get
    stream,                 \* the server's response stream
    pos,                    \* elements of the stream consumed
    output                  \* the Vec<QueryOutputValue> being built

client_vars == <<cpc, new_ret, connects, ccalls, creq, sent, cret, stream, pos, output>>

stream_vars == <<bulk_vars, client_vars>>

vars == <<map_vars, legacy_vars, stream_vars>>

\* ---------------------------------------------------------------- values
NoErr == [kind |-> "none", v |-> 0]
MapperErr(v) == [kind |-> "mapper", v |-> v]
QueryErr(n) == [kind |-> "query", v |-> n]

Max(a, b) == IF a >= b THEN a ELSE b

Last(s) == s[Len(s)]

\* The ascending sequence of the elements of a finite set of integers.
RECURSIVE SortedSeq(_)
SortedSeq(S) ==
    IF S = {} THEN << >>
    ELSE LET m == CHOOSE x \in S : \A y \in S : x <= y
         IN  <<m>> \o SortedSeq(S \ {m})

Take(s, n) == SubSeq(s, 1, IF Len(s) < n THEN Len(s) ELSE n)

\* RangeVertexQuery { limit, start_id } against a static graph: the vertices
\* after the cursor, in increasing id order, at most limit of them.
RangeQuery(g, start_id, limit) ==
    Take(SortedSeq({v \in g : v > start_id}), limit)

\* ---------------------------------------------------------------- map()
\* a last-page test that also takes a full page for the last one
IsLastQueryLe(page, limit) == Len(page) <= limit

\* lines 52: let is_last_query = vertices.len() < query_limit
IsLastQuery(page, limit) == Len(page) < limit

\* a cursor that an empty page resets
NextLastIdReset(page, cur) == IF page # << >> THEN Last(page) ELSE 0

\* a cursor that advances to the first vertex of the page instead of the last
NextLastIdFirst(page, cur) == IF page # << >> THEN Head(page) ELSE cur

\* lines 53-55: if let Some(last_vertex) = vertices.last() { last_id = Some(last_vertex.id) }
NextLastId(page, cur) == IF page # << >> THEN Last(page) ELSE cur

\* a slot that keeps its first content
RecordFirst(slot, err) == IF slot = NoErr THEN err ELSE slot

\* lines 47 and 62: *last_err.lock().unwrap() = Some(err)
Record(slot, err) == err

\* a result that ignores the slot
MapResultOk(slot) == [status |-> "Ok", err |-> NoErr]

\* lines 74-79
MapResult(slot) ==
    IF slot # NoErr THEN [status |-> "Err", err |-> slot]
    ELSE [status |-> "Ok", err |-> NoErr]

NotReturned == [status |-> "none", err |-> NoErr]

Queued == nstarted < Len(submitted)

hist_rec(err) ==
    /\ first_rec' = IF first_rec = NoErr THEN err ELSE first_rec
    /\ last_rec' = err

MapInit ==
    /\ graph \in SUBSET (1..MaxId)
    /\ mapper_num_workers \in 0..MaxNumWorkers
    /\ mapper_query_limit \in 0..MaxQueryLimit
    /\ mpc = "start"
    /\ pool = 0
    /\ query_limit = 0
    /\ last_err = NoErr
    /\ last_id = 0
    /\ vertices = << >>
    /\ is_last_query = FALSE
    /\ map_result = NotReturned
    /\ submitted = << >>
    /\ nstarted = 0
    /\ running = {}
    /\ completed = {}
    /\ observed = FALSE
    /\ fetches = << >>
    /\ first_rec = NoErr
    /\ last_rec = NoErr
    /\ rec_pending = FALSE

\* lines 27-31
MapBegin ==
    /\ mpc = "start"
    /\ pool' = Max(mapper_num_workers, 2)
    /\ query_limit' = Max(mapper_query_limit, 1)
    /\ last_err' = NoErr
    /\ last_id' = 0
    /\ mpc' = "check"
    /\ UNCHANGED legacy_vars
    /\ UNCHANGED stream_vars
    /\ UNCHANGED <<graph, mapper_num_workers, mapper_query_limit, vertices, is_last_query,
                   map_result, submitted, nstarted, running, completed,
                   observed, fetches, first_rec, last_rec, rec_pending>>

\* a loop head that tests the slot but does not break
MapCheckNoBreak ==
    /\ mpc = "check"
    /\ observed' = (last_err # NoErr)
    /\ mpc' = "fetch"
    /\ UNCHANGED legacy_vars
    /\ UNCHANGED stream_vars
    /\ UNCHANGED <<graph, mapper_num_workers, mapper_query_limit, pool, query_limit,
                   last_err, last_id, vertices, is_last_query, map_result,
                   submitted, nstarted, running, completed,
                   fetches, first_rec, last_rec, rec_pending>>

\* lines 34-36: if last_err.lock().unwrap().is_some() { break; }
MapCheck ==
    /\ mpc = "check"
    /\ observed' = (last_err # NoErr)
    /\ mpc' = IF last_err # NoErr THEN "join" ELSE "fetch"
    /\ UNCHANGED legacy_vars
    /\ UNCHANGED stream_vars
    /\ UNCHANGED <<graph, mapper_num_workers, mapper_query_limit, pool, query_limit,
                   last_err, last_id, vertices, is_last_query, map_result,
                   submitted, nstarted, running, completed,
                   fetches, first_rec, last_rec, rec_pending>>

\* lines 38-44: the query is built and trans.get_vertices is called
FetchStart ==
    /\ mpc = "fetch"
    /\ fetches' = Append(fetches, [start_id |-> last_id,
                                   limit |-> query_limit,
                                   slot_set |-> (last_err # NoErr),
                                   observed |-> observed,
                                   dispatched |-> Len(submitted),
                                   status |-> "pending",
                                   page |-> << >>])
    /\ mpc' = "fetching"
    /\ UNCHANGED legacy_vars
    /\ UNCHANGED stream_vars
    /\ UNCHANGED <<graph, mapper_num_workers, mapper_query_limit, pool, query_limit,
                   last_err, last_id, vertices, is_last_query, map_result,
                   submitted, nstarted, running, completed,
                   observed, first_rec, last_rec, rec_pending>>

\* lines 45, 52-55: get_vertices returned Ok(value)
FetchOk ==
    /\ mpc = "fetching"
    /\ LET page == RangeQuery(graph, last_id, query_limit)
       IN  /\ vertices' = page
           /\ is_last_query' = IsLastQuery(page, query_limit)
           /\ last_id' = NextLastId(page, last_id)
           /\ fetches' = [fetches EXCEPT ![Len(fetches)].status = "ok",
                                         ![Len(fetches)].page = page]
    /\ mpc' = "dispatch"
    /\ UNCHANGED legacy_vars
    /\ UNCHANGED stream_vars
    /\ UNCHANGED <<graph, mapper_num_workers, mapper_query_limit, pool, query_limit,
                   last_err, map_result, submitted, nstarted, running, completed,
                   observed, first_rec, last_rec, rec_pending>>

\* a failed query that is taken for the end of the traversal: nothing is stored
FetchErrDropped ==
    /\ mpc = "fetching"
    /\ fetches' = [fetches EXCEPT ![Len(fetches)].status = "err"]
    /\ mpc' = "join"
    /\ UNCHANGED legacy_vars
    /\ UNCHANGED stream_vars
    /\ UNCHANGED <<graph, mapper_num_workers, mapper_query_limit, pool, query_limit,
                   last_err, last_id, vertices, is_last_query, map_result,
                   submitted, nstarted, running, completed, observed,
                   first_rec, last_rec, rec_pending>>

\* lines 46-49: get_vertices returned Err(err)
FetchErr ==
    /\ mpc = "fetching"
    /\ last_err' = Record(last_err, QueryErr(Len(fetches)))
    /\ hist_rec(QueryErr(Len(fetches)))
    /\ rec_pending' = (rec_pending \/ Queued \/ running # {})
    /\ fetches' = [fetches EXCEPT ![Len(fetches)].status = "err"]
    /\ mpc' = "join"
    /\ UNCHANGED legacy_vars
    /\ UNCHANGED stream_vars
    /\ UNCHANGED <<graph, mapper_num_workers, mapper_query_limit, pool, query_limit,
                   last_id, vertices, is_last_query, map_result,
                   submitted, nstarted, running, completed, observed>>

\* lines 57-65: one iteration of the for loop, pool.execute(closure)
Dispatch ==
    /\ mpc = "dispatch"
    /\ vertices # << >>
    /\ submitted' = Append(submitted, Head(vertices))
    /\ vertices' = Tail(vertices)
    /\ UNCHANGED legacy_vars
    /\ UNCHANGED stream_vars
    /\ UNCHANGED <<graph, mapper_num_workers, mapper_query_limit, mpc, pool, query_limit,
                   last_err, last_id, is_last_query, map_result, nstarted, running, completed,
                   observed, fetches, first_rec, last_rec, rec_pending>>

\* lines 67-70: the for loop is over; break on the last query, else loop
DispatchDone ==
    /\ mpc = "dispatch"
    /\ vertices = << >>
    /\ mpc' = IF is_last_query THEN "join" ELSE "check"
    /\ UNCHANGED legacy_vars
    /\ UNCHANGED stream_vars
    /\ UNCHANGED <<graph, mapper_num_workers, mapper_query_limit, pool, query_limit,
                   last_err, last_id, vertices, is_last_query, map_result,
                   submitted, nstarted, running, completed,
                   observed, fetches, first_rec, last_rec, rec_pending>>

\* a join that does not wait for the pool
MapJoinNoWait ==
    /\ mpc = "join"
    /\ mpc' = "result"
    /\ UNCHANGED legacy_vars
    /\ UNCHANGED stream_vars
    /\ UNCHANGED <<graph, mapper_num_workers, mapper_query_limit, pool, query_limit,
                   last_err, last_id, vertices, is_last_query, map_result,
                   submitted, nstarted, running, completed,
                   observed, fetches, first_rec, last_rec, rec_pending>>

\* line 72: pool.join() returns when no job is queued and none is active
MapJoin ==
    /\ mpc = "join"
    /\ ~Queued
    /\ running = {}
    /\ mpc' = "result"
    /\ UNCHANGED legacy_vars
    /\ UNCHANGED stream_vars
    /\ UNCHANGED <<graph, mapper_num_workers, mapper_query_limit, pool, query_limit,
                   last_err, last_id, vertices, is_last_query, map_result,
                   submitted, nstarted, running, completed,
                   observed, fetches, first_rec, last_rec, rec_pending>>

\* lines 74-79: the slot is locked, read and taken
MapReturn ==
    /\ mpc = "result"
    /\ map_result' = MapResult(last_err)
    /\ last_err' = NoErr
    /\ mpc' = "done"
    /\ UNCHANGED legacy_vars
    /\ UNCHANGED stream_vars
    /\ UNCHANGED <<graph, mapper_num_workers, mapper_query_limit, pool, query_limit,
                   last_id, vertices, is_last_query,
                   submitted, nstarted, running, completed,
                   observed, fetches, first_rec, last_rec, rec_pending>>

\* a pool that starts a job whenever one is queued
WorkerStartUnbounded ==
    /\ Queued
    /\ nstarted' = nstarted + 1
    /\ running' = running \cup {nstarted + 1}
    /\ UNCHANGED legacy_vars
    /\ UNCHANGED stream_vars
    /\ UNCHANGED <<graph, mapper_num_workers, mapper_query_limit, mpc, pool, query_limit,
                   last_err, last_id, vertices, is_last_query, map_result, submitted, completed,
                   observed, fetches, first_rec, last_rec, rec_pending>>

\* a pool thread takes the oldest queued job and calls the closure of line 60
WorkerStart ==
    /\ Queued
    /\ Cardinality(running) < pool
    /\ nstarted' = nstarted + 1
    /\ running' = running \cup {nstarted + 1}
    /\ UNCHANGED legacy_vars
    /\ UNCHANGED stream_vars
    /\ UNCHANGED <<graph, mapper_num_workers, mapper_query_limit, mpc, pool, query_limit,
                   last_err, last_id, vertices, is_last_query, map_result, submitted, completed,
                   observed, fetches, first_rec, last_rec, rec_pending>>

\* line 61: mapper.map(vertex) returned Ok(())
WorkerOk(j) ==
    /\ j \in running
    /\ running' = running \ {j}
    /\ completed' = completed \cup {j}
    /\ UNCHANGED legacy_vars
    /\ UNCHANGED stream_vars
    /\ UNCHANGED <<graph, mapper_num_workers, mapper_query_limit, mpc, pool, query_limit,
                   last_err, last_id, vertices, is_last_query, map_result,
                   submitted, nstarted,
                   observed, fetches, first_rec, last_rec, rec_pending>>

\* lines 61-63: mapper.map(vertex) returned Err(err)
WorkerErr(j) ==
    /\ j \in running
    /\ last_err' = Record(last_err, MapperErr(submitted[j]))
    /\ hist_rec(MapperErr(submitted[j]))
    /\ rec_pending' = (rec_pending \/ Queued \/ running # {j})
    /\ running' = running \ {j}
    /\ completed' = completed \cup {j}
    /\ UNCHANGED legacy_vars
    /\ UNCHANGED stream_vars
    /\ UNCHANGED <<graph, mapper_num_workers, mapper_query_limit, mpc, pool, query_limit,
                   last_id, vertices, is_last_query, map_result,
                   submitted, nstarted, observed, fetches>>

Orchestrator ==
    \/ MapBegin
    \/ MapCheck
    \/ FetchStart
    \/ FetchOk
    \/ FetchErr
    \/ Dispatch
    \/ DispatchDone
    \/ MapJoin
    \/ MapReturn

Workers ==
    \/ WorkerStart
    \/ \E j \in running : WorkerOk(j)
    \/ \E j \in running : WorkerErr(j)

MapNext == Orchestrator \/ Workers

\* ---------------------------------------------------------------- ClientTransaction::execute
ServerStates == {"absent", "starting", "ready", "faulty"}

NoRet == [status |-> "none", kind |-> "none"]
RetOk == [status |-> "Ok", kind |-> "none"]
\* line 65: map_err(|err| format!("{:?}", err).into()), an indradb::Error
RetErr == [status |-> "Err", kind |-> "database"]

LegacyInit ==
    /\ server \in ServerStates
    /\ ds = 0
    /\ tx = 0
    /\ lpc = "idle"
    /\ addr = 0
    /\ iter = 0
    /\ conn = 0
    /\ ret = NoRet
    /\ calls = 0
    /\ attempts = 0
    /\ sleeps = 0
    /\ pings = 0
    /\ ops = << >>
    /\ log = << >>

\* the server process starts, becomes ready, breaks or goes away
ServerChange ==
    /\ server' \in ServerStates \ {server}
    /\ UNCHANGED map_vars
    /\ UNCHANGED stream_vars
    /\ UNCHANGED <<ds, tx, lpc, addr, iter, conn, ret,
                   calls, attempts, sleeps, pings, ops, log>>

\* lines 22-24: ClientDatastore::new(port)
New(port) ==
    /\ ds = 0
    /\ ds' = port
    /\ UNCHANGED map_vars
    /\ UNCHANGED stream_vars
    /\ UNCHANGED <<server, tx, lpc, addr, iter, conn, ret,
                   calls, attempts, sleeps, pings, ops, log>>

\* a transaction() that connects at once
transactionConnect ==
    /\ ds # 0
    /\ tx = 0
    /\ tx' = ds
    /\ attempts' = attempts + 1
    /\ UNCHANGED map_vars
    /\ UNCHANGED stream_vars
    /\ UNCHANGED <<server, ds, lpc, addr, iter, conn, ret,
                   calls, sleeps, pings, ops, log>>

\* lines 28-30 and 38-40: transaction() is Ok(ClientTransaction::new(self.port))
transaction ==
    /\ ds # 0
    /\ tx = 0
    /\ tx' = ds
    /\ UNCHANGED map_vars
    /\ UNCHANGED stream_vars
    /\ UNCHANGED <<server, ds, lpc, addr, iter, conn, ret,
                   calls, attempts, sleeps, pings, ops, log>>

\* lines 44-48: an operation of the transaction calls execute
ExecBegin ==
    /\ tx # 0
    /\ lpc \in {"idle", "returned"}
    /\ calls < MaxCalls
    /\ calls' = calls + 1
    /\ addr' = tx
    /\ iter' = 0
    /\ conn' = 0
    /\ ret' = NoRet
    /\ attempts' = 0
    /\ sleeps' = 0
    /\ pings' = 0
    /\ ops' = << >>
    /\ log' = << >>
    /\ lpc' = "loop"
    /\ UNCHANGED map_vars
    /\ UNCHANGED stream_vars
    /\ UNCHANGED <<server, ds, tx>>

\* lines 50-51: the loop goes on and TcpStream::connect fails
ConnectFail ==
    /\ lpc = "loop"
    /\ iter < MaxAttempts
    /\ server = "absent"
    /\ attempts' = attempts + 1
    /\ log' = Append(log, "refused")
    /\ conn' = 0
    /\ lpc' = "sleep"
    /\ UNCHANGED map_vars
    /\ UNCHANGED stream_vars
    /\ UNCHANGED <<server, ds, tx, addr, iter, ret, calls, sleeps, pings, ops>>

\* lines 50-57: the loop goes on and TcpStream::connect yields a stream
ConnectOk ==
    /\ lpc = "loop"
    /\ iter < MaxAttempts
    /\ server # "absent"
    /\ attempts' = attempts + 1
    /\ conn' = attempts + 1
    /\ lpc' = "ping"
    /\ UNCHANGED map_vars
    /\ UNCHANGED stream_vars
    /\ UNCHANGED <<server, ds, tx, addr, iter, ret, calls, sleeps, pings, ops, log>>

\* lines 59-62: the ping is answered with ready = true
PingReady ==
    /\ lpc = "ping"
    /\ server = "ready"
    /\ pings' = pings + 1
    /\ log' = Append(log, "ready")
    /\ lpc' = "op"
    /\ UNCHANGED map_vars
    /\ UNCHANGED stream_vars
    /\ UNCHANGED <<server, ds, tx, addr, iter, conn, ret, calls, attempts, sleeps, ops>>

\* a not-ready answer after which the operation is sent all the same
PingNotReadyProceeds ==
    /\ lpc = "ping"
    /\ server = "starting"
    /\ pings' = pings + 1
    /\ log' = Append(log, "notready")
    /\ lpc' = "op"
    /\ UNCHANGED map_vars
    /\ UNCHANGED stream_vars
    /\ UNCHANGED <<server, ds, tx, addr, iter, conn, ret, calls, attempts, sleeps, ops>>

\* lines 59-62, 67: the ping is answered with ready = false
PingNotReady ==
    /\ lpc = "ping"
    /\ server = "starting"
    /\ pings' = pings + 1
    /\ log' = Append(log, "notready")
    /\ lpc' = "sleep"
    /\ UNCHANGED map_vars
    /\ UNCHANGED stream_vars
    /\ UNCHANGED <<server, ds, tx, addr, iter, conn, ret, calls, attempts, sleeps, ops>>

\* lines 60 and 62: the ping request or its response is an error; unwrap() panics
PingErr ==
    /\ lpc = "ping"
    /\ server \in {"faulty", "absent"}
    /\ pings' = pings + 1
    /\ log' = Append(log, "probe_err")
    /\ lpc' = "panicked"
    /\ UNCHANGED map_vars
    /\ UNCHANGED stream_vars
    /\ UNCHANGED <<server, ds, tx, addr, iter, conn, ret, calls, attempts, sleeps, ops>>

\* an operation whose failure is retried like a failed probe
OpRetry(ok) ==
    /\ lpc = "op"
    /\ ok => server # "absent"
    /\ ops' = Append(ops, conn)
    /\ ret' = IF ok THEN RetOk ELSE NoRet
    /\ lpc' = IF ok THEN "returned" ELSE "sleep"
    /\ UNCHANGED map_vars
    /\ UNCHANGED stream_vars
    /\ UNCHANGED <<server, ds, tx, addr, iter, conn, calls, attempts, sleeps, pings, log>>

\* lines 63-65: the transaction handle is taken from the connection, the
\* operation is sent on it and its result is returned
Op(ok) ==
    /\ lpc = "op"
    /\ ok => server # "absent"
    /\ ops' = Append(ops, conn)
    /\ ret' = IF ok THEN RetOk ELSE RetErr
    /\ lpc' = "returned"
    /\ UNCHANGED map_vars
    /\ UNCHANGED stream_vars
    /\ UNCHANGED <<server, ds, tx, addr, iter, conn, calls, attempts, sleeps, pings, log>>

\* lines 69-70: sleep(Duration::from_secs(1)) and the end of the iteration
Sleep ==
    /\ lpc = "sleep"
    /\ sleeps' = sleeps + 1
    /\ iter' = iter + 1
    /\ conn' = 0
    /\ lpc' = "loop"
    /\ UNCHANGED map_vars
    /\ UNCHANGED stream_vars
    /\ UNCHANGED <<server, ds, tx, addr, ret, calls, attempts, pings, ops, log>>

\* a loop exit that returns an error to the caller
ExecGiveUp ==
    /\ lpc = "loop"
    /\ iter >= MaxAttempts
    /\ ret' = RetErr
    /\ lpc' = "returned"
    /\ UNCHANGED map_vars
    /\ UNCHANGED stream_vars
    /\ UNCHANGED <<server, ds, tx, addr, iter, conn, calls, attempts, sleeps, pings, ops, log>>

\* line 72: panic!("Could not connect to the server after a few seconds")
ExecPanic ==
    /\ lpc = "loop"
    /\ iter >= MaxAttempts
    /\ lpc' = "panicked"
    /\ UNCHANGED map_vars
    /\ UNCHANGED stream_vars
    /\ UNCHANGED <<server, ds, tx, addr, iter, conn, ret, calls, attempts, sleeps, pings, ops, log>>

Execute ==
    \/ ExecBegin
    \/ ConnectFail
    \/ ConnectOk
    \/ PingReady
    \/ PingNotReady
    \/ PingErr
    \/ \E ok \in BOOLEAN : Op(ok)
    \/ Sleep
    \/ ExecPanic

LegacyNext ==
    \/ ServerChange
    \/ \E port \in 1..MaxPort : New(port)
    \/ transaction
    \/ Execute

\* ---------------------------------------------------------------- Client::bulk_insert
BatchSizes == (0..MaxSmallBatch) \cup (CHANNEL_CAPACITY..(CHANNEL_CAPACITY + MaxOver))

BulkInit ==
    /\ items \in {[k \in 1..n |-> k] : n \in BatchSizes}
    /\ bpc = "idle"
    /\ bulk_last_err = "None"
    /\ bret = "none"
    /\ ppc = "none"
    /\ next = 1
    /\ chan = << >>
    /\ rx = "none"
    /\ received = << >>
    /\ eos = FALSE
    /\ resp = "none"
    /\ err_before_resp = FALSE

\* lines 206-219: the channel and the slot are created, the producer task is spawned
BulkBegin ==
    /\ bpc = "idle"
    /\ rx' = "open"
    /\ chan' = << >>
    /\ bulk_last_err' = "None"
    /\ ppc' = "loop"
    /\ next' = 1
    /\ bpc' = "request"
    /\ UNCHANGED <<map_vars, legacy_vars, client_vars>>
    /\ UNCHANGED <<items, bret, received, eos, resp, err_before_resp>>

\* line 221: self.0.bulk_insert(Request::new(ReceiverStream::new(rx))) is called
BulkRequest ==
    /\ bpc = "request"
    /\ bpc' = "await"
    /\ UNCHANGED <<map_vars, legacy_vars, client_vars>>
    /\ UNCHANGED <<items, bulk_last_err, bret, ppc, next, chan, rx,
                   received, eos, resp, err_before_resp>>

\* a wait for the response that is not a wait
BulkAwaitNoWait ==
    /\ bpc = "await"
    /\ resp # "err"
    /\ bpc' = "read"
    /\ UNCHANGED <<map_vars, legacy_vars, client_vars>>
    /\ UNCHANGED <<items, bulk_last_err, bret, ppc, next, chan, rx,
                   received, eos, resp, err_before_resp>>

\* line 221: .await yields Ok(response)
BulkAwaitOk ==
    /\ bpc = "await"
    /\ resp = "ok"
    /\ bpc' = "read"
    /\ UNCHANGED <<map_vars, legacy_vars, client_vars>>
    /\ UNCHANGED <<items, bulk_last_err, bret, ppc, next, chan, rx,
                   received, eos, resp, err_before_resp>>

\* a failure status that gives way to an enqueue failure found in the slot
BulkAwaitErrSlot ==
    /\ bpc = "await"
    /\ resp = "err"
    /\ bret' = IF bulk_last_err # "None" THEN bulk_last_err ELSE "Grpc"
    /\ bpc' = "returned"
    /\ UNCHANGED <<map_vars, legacy_vars, client_vars>>
    /\ UNCHANGED <<items, bulk_last_err, ppc, next, chan, rx,
                   received, eos, resp, err_before_resp>>

\* line 221: .await yields Err(status) and ? returns ClientError::Grpc
BulkAwaitErr ==
    /\ bpc = "await"
    /\ resp = "err"
    /\ bret' = "Grpc"
    /\ bpc' = "returned"
    /\ UNCHANGED <<map_vars, legacy_vars, client_vars>>
    /\ UNCHANGED <<items, bulk_last_err, ppc, next, chan, rx,
                   received, eos, resp, err_before_resp>>

\* lines 223-228: the slot is locked, read and taken
BulkReturn ==
    /\ bpc = "read"
    /\ bret' = IF bulk_last_err # "None" THEN bulk_last_err ELSE "Ok"
    /\ bulk_last_err' = "None"
    /\ bpc' = "returned"
    /\ UNCHANGED <<map_vars, legacy_vars, client_vars>>
    /\ UNCHANGED <<items, ppc, next, chan, rx, received, eos, resp, err_before_resp>>

\* a loop that passes over every other item
ProducerSendSkip ==
    /\ ppc = "loop"
    /\ next <= Len(items)
    /\ rx = "open"
    /\ Len(chan) < CHANNEL_CAPACITY
    /\ chan' = Append(chan, items[next])
    /\ next' = next + 2
    /\ UNCHANGED <<map_vars, legacy_vars, client_vars>>
    /\ UNCHANGED <<items, bpc, bulk_last_err, bret, ppc, rx,
                   received, eos, resp, err_before_resp>>

\* a send into a channel without a capacity
ProducerSendUnbounded ==
    /\ ppc = "loop"
    /\ next <= Len(items)
    /\ rx = "open"
    /\ chan' = Append(chan, items[next])
    /\ next' = next + 1
    /\ UNCHANGED <<map_vars, legacy_vars, client_vars>>
    /\ UNCHANGED <<items, bpc, bulk_last_err, bret, ppc, rx,
                   received, eos, resp, err_before_resp>>

\* lines 212-213: tx.send(item.into()).await is Ok; it waits while the channel is full
ProducerSend ==
    /\ ppc = "loop"
    /\ next <= Len(items)
    /\ rx = "open"
    /\ Len(chan) < CHANNEL_CAPACITY
    /\ chan' = Append(chan, items[next])
    /\ next' = next + 1
    /\ UNCHANGED <<map_vars, legacy_vars, client_vars>>
    /\ UNCHANGED <<items, bpc, bulk_last_err, bret, ppc, rx,
                   received, eos, resp, err_before_resp>>

\* lines 213-216: tx.send is Err because the receiver is gone; the failure is stored
ProducerFail ==
    /\ ppc = "loop"
    /\ next <= Len(items)
    /\ rx = "closed"
    /\ bulk_last_err' = "ChannelClosed"
    /\ err_before_resp' = (err_before_resp \/ resp = "none")
    /\ ppc' = "failed"
    /\ UNCHANGED <<map_vars, legacy_vars, client_vars>>
    /\ UNCHANGED <<items, bpc, bret, next, chan, rx, received, eos, resp>>

\* lines 212, 217-218: the iterator is exhausted, the task ends and tx is dropped
ProducerDone ==
    /\ ppc = "loop"
    /\ next > Len(items)
    /\ ppc' = "done"
    /\ UNCHANGED <<map_vars, legacy_vars, client_vars>>
    /\ UNCHANGED <<items, bpc, bulk_last_err, bret, next, chan, rx,
                   received, eos, resp, err_before_resp>>

\* line 221: the request stream takes the oldest item of the channel and the server observes it
ConsumerTake ==
    /\ bpc # "idle"
    /\ bpc # "request"
    /\ rx = "open"
    /\ chan # << >>
    /\ received' = Append(received, Head(chan))
    /\ chan' = Tail(chan)
    /\ UNCHANGED <<map_vars, legacy_vars, client_vars>>
    /\ UNCHANGED <<items, bpc, bulk_last_err, bret, ppc, next, rx,
                   eos, resp, err_before_resp>>

\* line 221: the channel is empty and tx is dropped; the request stream ends
ServerEos ==
    /\ bpc # "idle"
    /\ bpc # "request"
    /\ rx = "open"
    /\ chan = << >>
    /\ ppc = "done"
    /\ eos' = TRUE
    /\ rx' = "ended"
    /\ UNCHANGED <<map_vars, legacy_vars, client_vars>>
    /\ UNCHANGED <<items, bpc, bulk_last_err, bret, ppc, next, chan,
                   received, resp, err_before_resp>>

\* line 221: the request stream is dropped before its end (the server or the
\* transport closed it early); the items left in the channel are dropped
CloseRx ==
    /\ bpc # "idle"
    /\ bpc # "request"
    /\ rx = "open"
    /\ rx' = "closed"
    /\ chan' = << >>
    /\ UNCHANGED <<map_vars, legacy_vars, client_vars>>
    /\ UNCHANGED <<items, bpc, bulk_last_err, bret, ppc, next,
                   received, eos, resp, err_before_resp>>

\* line 221: the server's response to the bulk stream arrives
Respond(status) ==
    /\ bpc = "await"
    /\ resp = "none"
    /\ rx \in {"ended", "closed"}
    /\ resp' = status
    /\ UNCHANGED <<map_vars, legacy_vars, client_vars>>
    /\ UNCHANGED <<items, bpc, bulk_last_err, bret, ppc, next, chan, rx,
                   received, eos, err_before_resp>>

Foreground ==
    \/ BulkBegin
    \/ BulkRequest
    \/ BulkAwaitOk
    \/ BulkAwaitErr
    \/ BulkReturn

Producer ==
    \/ ProducerSend
    \/ ProducerFail
    \/ ProducerDone

Transport ==
    \/ ConsumerTake
    \/ ServerEos
    \/ CloseRx
    \/ \E status \in {"ok", "err"} : Respond(status)

BulkNext == Foreground \/ Producer \/ Transport

\* ---------------------------------------------------------------- Client::new, create_vertex, get
\* elements of a response stream: a value 1..MaxValue, a value that does not
\* convert (0), or an error status (-1)
StreamElems == (-1)..MaxValue

Streams == UNION {[1..n -> StreamElems] : n \in 0..MaxStream}

\* line 154: try_into() of a received value (the conversion is not part of the sources)
Converted(e) == <<"QueryOutputValue", e>>

NoCRet == [status |-> "none", value |-> << >>]
CRetOk(v) == [status |-> "Ok", value |-> v]
CRetErr(kind) == [status |-> kind, value |-> << >>]

ClientInit ==
    /\ cpc = "init"
    /\ new_ret = "none"
    /\ connects = 0
    /\ ccalls = 0
    /\ creq = "none"
    /\ sent = 0
    /\ cret = NoCRet
    /\ stream = << >>
    /\ pos = 0
    /\ output = << >>

\* lines 90-93: ProtoClient::connect(endpoint).await? ; Ok(Client(client))
ClientNew(ok) ==
    /\ cpc = "init"
    /\ connects' = connects + 1
    /\ new_ret' = IF ok THEN "Ok" ELSE "Transport"
    /\ cpc' = IF ok THEN "ready" ELSE "failed"
    /\ UNCHANGED <<map_vars, legacy_vars, bulk_vars>>
    /\ UNCHANGED <<ccalls, creq, sent, cret, stream, pos, output>>

\* lines 114-116: the create_vertex request is sent
CreateVertexSend ==
    /\ cpc = "ready"
    /\ ccalls < MaxClientCalls
    /\ ccalls' = ccalls + 1
    /\ creq' = "create_vertex"
    /\ sent' = 1
    /\ cret' = NoCRet
    /\ cpc' = "cv_wait"
    /\ UNCHANGED <<map_vars, legacy_vars, bulk_vars>>
    /\ UNCHANGED <<new_ret, connects, stream, pos, output>>

\* lines 116-117: the response is Ok; res.into_inner().created is returned
CreateVertexOk(created) ==
    /\ cpc = "cv_wait"
    /\ cret' = CRetOk(created)
    /\ cpc' = "ready"
    /\ UNCHANGED <<map_vars, legacy_vars, bulk_vars>>
    /\ UNCHANGED <<new_ret, connects, ccalls, creq, sent, stream, pos, output>>

\* a failure status after which the request is sent again
CreateVertexErrResend ==
    /\ cpc = "cv_wait"
    /\ sent' = sent + 1
    /\ UNCHANGED <<map_vars, legacy_vars, bulk_vars>>
    /\ UNCHANGED <<cpc, new_ret, connects, ccalls, creq, cret, stream, pos, output>>

\* line 116: the response is a failure status; ? returns ClientError::Grpc
CreateVertexErr ==
    /\ cpc = "cv_wait"
    /\ cret' = CRetErr("Grpc")
    /\ cpc' = "ready"
    /\ UNCHANGED <<map_vars, legacy_vars, bulk_vars>>
    /\ UNCHANGED <<new_ret, connects, ccalls, creq, sent, stream, pos, output>>

\* lines 150-152: the query is converted, output is created, the get request is sent
GetSend ==
    /\ cpc = "ready"
    /\ ccalls < MaxClientCalls
    /\ ccalls' = ccalls + 1
    /\ creq' = "get"
    /\ sent' = 1
    /\ cret' = NoCRet
    /\ output' = << >>
    /\ pos' = 0
    /\ stream' = << >>
    /\ cpc' = "get_wait"
    /\ UNCHANGED <<map_vars, legacy_vars, bulk_vars>>
    /\ UNCHANGED <<new_ret, connects>>

\* line 152: the response is Ok and carries the stream st
GetOpen(st) ==
    /\ cpc = "get_wait"
    /\ stream' = st
    /\ cpc' = "get_loop"
    /\ UNCHANGED <<map_vars, legacy_vars, bulk_vars>>
    /\ UNCHANGED <<new_ret, connects, ccalls, creq, sent, cret, pos, output>>

\* line 152: the response is a failure status; ? returns ClientError::Grpc
GetOpenErr ==
    /\ cpc = "get_wait"
    /\ cret' = CRetErr("Grpc")
    /\ cpc' = "ready"
    /\ UNCHANGED <<map_vars, legacy_vars, bulk_vars>>
    /\ UNCHANGED <<new_ret, connects, ccalls, creq, sent, stream, pos, output>>

\* a loop that puts each value in front of the output
GetNextValueFront ==
    /\ cpc = "get_loop"
    /\ pos < Len(stream)
    /\ stream[pos + 1] > 0
    /\ pos' = pos + 1
    /\ output' = <<Converted(stream[pos + 1])>> \o output
    /\ UNCHANGED <<map_vars, legacy_vars, bulk_vars>>
    /\ UNCHANGED <<cpc, new_ret, connects, ccalls, creq, sent, cret, stream>>

\* lines 153-154: res.next() is Some(Ok(value)) and the value converts; it is pushed
GetNextValue ==
    /\ cpc = "get_loop"
    /\ pos < Len(stream)
    /\ stream[pos + 1] > 0
    /\ pos' = pos + 1
    /\ output' = Append(output, Converted(stream[pos + 1]))
    /\ UNCHANGED <<map_vars, legacy_vars, bulk_vars>>
    /\ UNCHANGED <<cpc, new_ret, connects, ccalls, creq, sent, cret, stream>>

\* lines 153-154: res.next() is Some(Err(status)), or the value does not
\* convert; ? returns the error and output is dropped
GetNextErr ==
    /\ cpc = "get_loop"
    /\ pos < Len(stream)
    /\ stream[pos + 1] <= 0
    /\ pos' = pos + 1
    /\ cret' = CRetErr(IF stream[pos + 1] = -1 THEN "Grpc" ELSE "Conversion")
    /\ output' = << >>
    /\ cpc' = "ready"
    /\ UNCHANGED <<map_vars, legacy_vars, bulk_vars>>
    /\ UNCHANGED <<new_ret, connects, ccalls, creq, sent, stream>>

\* lines 153, 156: res.next() is None; Ok(output)
GetEnd ==
    /\ cpc = "get_loop"
    /\ pos = Len(stream)
    /\ cret' = CRetOk(output)
    /\ output' = << >>
    /\ cpc' = "ready"
    /\ UNCHANGED <<map_vars, legacy_vars, bulk_vars>>
    /\ UNCHANGED <<new_ret, connects, ccalls, creq, sent, stream, pos>>

ClientNext ==
    \/ \E ok \in BOOLEAN : ClientNew(ok)
    \/ CreateVertexSend
    \/ \E created \in BOOLEAN : CreateVertexOk(created)
    \/ CreateVertexErr
    \/ GetSend
    \/ \E st \in Streams : GetOpen(st)
    \/ GetOpenErr
    \/ GetNextValue
    \/ GetNextErr
    \/ GetEnd

\* ---------------------------------------------------------------- specifications
\* no bulk_insert call is made
BulkQuiet ==
    /\ BulkInit
    /\ items = << >>
    /\ ClientInit

\* a map() call; no legacy client is in use
InitMap ==
    /\ MapInit
    /\ LegacyInit
    /\ server = "absent"
    /\ BulkQuiet

SpecMap == InitMap /\ [][MapNext]_vars

\* the orchestrating thread and the pool threads are scheduled by the OS
SpecMapFair == SpecMap /\ WF_vars(Orchestrator) /\ WF_vars(Workers)

\* a legacy client; no map() call is made
InitLegacy ==
    /\ LegacyInit
    /\ MapInit
    /\ graph = {}
    /\ mapper_num_workers = 0
    /\ mapper_query_limit = 0
    /\ BulkQuiet

SpecLegacy == InitLegacy /\ [][LegacyNext]_vars

\* the calling thread runs while execute has a step to take
SpecLegacyFair == SpecLegacy /\ WF_vars(Execute)

\* a bulk_insert call; no map() call and no legacy client
InitBulk ==
    /\ BulkInit
    /\ MapInit
    /\ graph = {}
    /\ mapper_num_workers = 0
    /\ mapper_query_limit = 0
    /\ LegacyInit
    /\ server = "absent"
    /\ ClientInit

SpecBulk == InitBulk /\ [][BulkNext]_vars

\* a streaming client and its request/response calls
InitClient ==
    /\ ClientInit
    /\ BulkInit
    /\ items = << >>
    /\ MapInit
    /\ graph = {}
    /\ mapper_num_workers = 0
    /\ mapper_query_limit = 0
    /\ LegacyInit
    /\ server = "absent"

SpecClient == InitClient /\ [][ClientNext]_vars

\* ---------------------------------------------------------------- properties of map()
RECURSIVE Pages(_)
Pages(fs) ==
    IF fs = << >> THEN << >> ELSE Pages(SubSeq(fs, 1, Len(fs) - 1)) \o Last(fs).page

IsPrefix(s, t) == Len(s) <= Len(t) /\ s = SubSeq(t, 1, Len(s))

\* C1: with no failed range query and no failed mapper invocation, the
\* vertices given to the pool are at every moment a prefix of the graph's
\* vertices in increasing id order (none skipped, none twice), no range query
\* follows a page shorter than the page size, and when map returns all
\* vertices of the graph were submitted and the last page was a short one.
C1_TraversalComplete ==
    first_rec = NoErr =>
        /\ IsPrefix(submitted, SortedSeq(graph))
        /\ \A i \in 1..(Len(fetches) - 1) : Len(fetches[i].page) = query_limit
        /\ mpc = "done" =>
              /\ submitted = SortedSeq(graph)
              /\ fetches # << >>
              /\ Len(Last(fetches).page) < query_limit

C1_Witness ==
    /\ mpc = "done"
    /\ first_rec = NoErr
    /\ Len(fetches) >= 3
    /\ query_limit >= 2
    /\ Len(submitted) = MaxId

\* C2 as claimed: no get_vertices call starts while the failure slot is
\* non-empty.
C2_NoFetchAfterRecord ==
    \A i \in 1..Len(fetches) : ~fetches[i].slot_set

\* C2 amended: no get_vertices call starts after the orchestrating thread's
\* test of the slot found a failure, and a call that starts while the slot
\* is non-empty is the last call.
C2_NoFetchAfterObserved ==
    \A i \in 1..Len(fetches) :
        /\ ~fetches[i].observed
        /\ fetches[i].slot_set => i = Len(fetches)

C2_Witness ==
    /\ mpc = "done"
    /\ Len(fetches) >= 2
    /\ Last(fetches).slot_set
    /\ Last(fetches).status = "ok"
    /\ observed

C4_ResultOfMap ==
    /\ [](mpc = "done" =>
            (map_result.status = "Ok" <=>
                /\ first_rec = NoErr
                /\ fetches # << >>
                /\ Last(fetches).status = "ok"
                /\ Len(Last(fetches).page) < query_limit))
    /\ [](mpc = "done" <=> map_result.status \in {"Ok", "Err"})
    /\ (first_rec.kind = "mapper") ~> (mpc = "done" /\ map_result.status = "Err")

C4_Witness ==
    /\ mpc = "done"
    /\ first_rec.kind = "mapper"
    /\ map_result.status = "Err"
    /\ Len(fetches) >= 2

\* C5: when map reads the slot and when it returns, every vertex of every
\* fetched page was given to the pool and every job given to the pool has
\* run to completion.
C5_NoCancellation ==
    /\ IsPrefix(submitted, Pages(fetches))
    /\ mpc \in {"join", "result", "done"} => submitted = Pages(fetches)
    /\ mpc \in {"result", "done"} =>
          /\ ~Queued
          /\ running = {}
          /\ completed = 1..Len(submitted)

C5_Witness ==
    /\ mpc = "done"
    /\ rec_pending
    /\ Len(submitted) >= 3
    /\ completed = 1..Len(submitted)

\* ---------------------------------------------------------------- properties of execute
NotReady == {k \in 1..Len(log) : log[k] # "ready"}

Exhausted ==
    /\ attempts = MaxAttempts
    /\ Len(log) = MaxAttempts
    /\ \A k \in 1..Len(log) : log[k] \in {"refused", "notready"}

\* C6 as claimed: an execute call makes at most 5 connection attempts, every
\* attempt that did not yield a ready server has been followed by a sleep
\* once the call left that attempt, and after the attempt that found the
\* server ready there is no further attempt and the operation is sent on the
\* connection of that attempt.
C6_RetryBound ==
    /\ attempts <= MaxAttempts
    /\ lpc # "sleep" => sleeps = Cardinality(NotReady)
    /\ \A k \in 1..Len(log) :
          log[k] = "ready" => (k = attempts /\ conn = k /\ ops \in {<< >>, <<k>>})
    /\ lpc = "returned" => (ops = <<attempts>> /\ log[attempts] = "ready")

\* C7: five attempts that all ended in a refused connection or a not-ready
\* probe are followed by the panic and by no return value; a value is
\* returned only after an attempt found the server ready.
C7_ExhaustionIsFatal ==
    /\ [](Exhausted => (ret = NoRet /\ lpc \in {"sleep", "loop", "panicked"}))
    /\ [](lpc = "returned" => (ret # NoRet /\ log # << >> /\ Last(log) = "ready"))
    /\ [](ret # NoRet => lpc = "returned")
    /\ (Exhausted ~> lpc = "panicked")

C7_Witness ==
    /\ lpc = "panicked"
    /\ Exhausted
    /\ ret = NoRet
    /\ \E k \in 1..Len(log) : log[k] = "refused"
    /\ \E k \in 1..Len(log) : log[k] = "notready"

\* C8 as claimed: after a probe that failed or reported not-ready on an
\* attempt before the fifth, execute has neither returned nor terminated the
\* process: it is about to sleep or to connect again.
C8_ProbeFailureRetried ==
    (/\ log # << >>
     /\ Len(log) = attempts
     /\ Last(log) \in {"probe_err", "notready"}
     /\ attempts < MaxAttempts)
        => lpc \in {"sleep", "loop"}

\* C9: an operation request is sent at most once per call, on the connection
\* whose probe reported ready; whatever its outcome execute returns at once,
\* with a database error if it failed, and no attempt and no sleep follow it.
C9_OpFailureNotRetried ==
    /\ ops # << >> =>
          /\ lpc = "returned"
          /\ ret \in {RetOk, RetErr}
          /\ ops = <<attempts>>
          /\ Len(log) = attempts
          /\ Last(log) = "ready"
          /\ sleeps = attempts - 1
          /\ iter = attempts - 1
    /\ ret = RetErr => ops # << >>

C9_Witness ==
    /\ lpc = "returned"
    /\ ret = RetErr
    /\ attempts \in 2..(MaxAttempts - 1)
    /\ sleeps = attempts - 1
    /\ server = "ready"

\* C10: before the first operation call no connection attempt was made and
\* nothing was sent; transaction() stores the datastore's port and can be
\* taken whatever the state of the server.
C10_ConstructionDoesNotConnect ==
    /\ calls = 0 =>
          /\ attempts = 0
          /\ pings = 0
          /\ ops = << >>
          /\ conn = 0
          /\ lpc = "idle"
    /\ tx # 0 => tx = ds
    /\ (ds # 0 /\ tx = 0) => ENABLED transaction

C10_Witness ==
    /\ tx # 0
    /\ tx = MaxPort
    /\ calls = 0
    /\ server = "absent"
    /\ attempts = 0

\* ---------------------------------------------------------------- further properties of map()
\* the id of the last vertex of the most recent non-empty page among fs; 0 if none
RECURSIVE CursorAfter(_)
CursorAfter(fs) ==
    IF fs = << >> THEN 0
    ELSE IF Last(fs).page # << >> THEN Last(Last(fs).page)
    ELSE CursorAfter(SubSeq(fs, 1, Len(fs) - 1))

\* C16: a range query starts only when every vertex of the pages before it
\* was given to the pool; its start_id is the id of the last vertex of the
\* most recent non-empty page (unset for the first query); while a page is
\* dispatched the cursor already is the id of its last vertex; the cursor
\* never moves backwards and an empty page leaves it unchanged.
C16_SequentialChainedFetches ==
    /\ [](\A n \in 1..Len(fetches) :
            /\ fetches[n].dispatched = Len(Pages(SubSeq(fetches, 1, n - 1)))
            /\ fetches[n].start_id = CursorAfter(SubSeq(fetches, 1, n - 1))
            /\ fetches[n].limit = query_limit)
    /\ [](mpc = "dispatch" => last_id = CursorAfter(fetches))
    /\ []((fetches # << >> /\ Last(fetches).status = "ok" /\ Last(fetches).page = << >>)
            => last_id = Last(fetches).start_id)
    /\ [][last_id' >= last_id]_vars

C16_Witness ==
    /\ mpc = "dispatch"
    /\ Len(fetches) = 3
    /\ Last(fetches).page = << >>
    /\ Last(fetches).start_id = MaxId
    /\ last_id = MaxId
    /\ running # {}

PoolSize == IF mapper_num_workers <= 2 THEN 2 ELSE mapper_num_workers

\* C17: at most max(num_workers, 2) mapper invocations run at the same time,
\* a num_workers of 0 or 1 gives a pool of exactly 2, and every job given to
\* the pool is either still queued, running or completed.
C17_BoundedPool ==
    /\ Cardinality(running) <= PoolSize
    /\ mpc # "start" => pool = PoolSize
    /\ running \cap completed = {}
    /\ running \cup completed = 1..nstarted
    /\ nstarted <= Len(submitted)

C17_Witness ==
    /\ mapper_num_workers \in {0, 1}
    /\ Cardinality(running) = 2
    /\ Queued
    /\ Len(submitted) - nstarted >= 2

\* C20: map returns for every graph and every configured page size; a
\* query_limit of 0 is clamped to 1; with no failure the number of range
\* queries is floor(N/P)+1, and when N is a multiple of P the last query
\* returned an empty page.
C20_Termination ==
    /\ <>(mpc = "done")
    /\ [](mpc # "start" =>
            (query_limit >= 1 /\ (mapper_query_limit = 0 => query_limit = 1)))
    /\ []((mpc = "done" /\ first_rec = NoErr) =>
            /\ Len(fetches) = (Cardinality(graph) \div query_limit) + 1
            /\ (Cardinality(graph) % query_limit = 0) =>
                  (Last(fetches).page = << >> /\ Last(fetches).dispatched = Len(submitted)))

C20_Witness ==
    /\ mpc = "done"
    /\ first_rec = NoErr
    /\ Cardinality(graph) = 4
    /\ query_limit = 2
    /\ Len(fetches) = 3
    /\ Last(fetches).page = << >>

\* C21: when a range query failed, it is the last range query of the call
\* and map is past its loop; no vertex was given to the pool since that
\* query was issued; the slot is read only when every job given to the pool
\* from the earlier pages has run to completion; and map returns Err,
\* whether those jobs succeeded or failed.
C21_QueryFailure ==
    \A k \in 1..Len(fetches) :
        fetches[k].status = "err" =>
            /\ k = Len(fetches)
            /\ fetches[k].page = << >>
            /\ Len(submitted) = fetches[k].dispatched
            /\ submitted = Pages(SubSeq(fetches, 1, k - 1))
            /\ vertices = << >>
            /\ mpc \in {"join", "result", "done"}
            /\ mpc \in {"join", "result"} => last_err # NoErr
            /\ mpc \in {"result", "done"} =>
                  /\ ~Queued
                  /\ running = {}
                  /\ completed = 1..Len(submitted)
            /\ mpc = "done" => map_result.status = "Err"

C21_Witness ==
    /\ mpc = "done"
    /\ Len(fetches) >= 2
    /\ Last(fetches).status = "err"
    /\ rec_pending
    /\ Len(submitted) >= 2
    /\ completed = 1..Len(submitted)
    /\ map_result.status = "Err"
    /\ first_rec.kind = "query"
    /\ last_rec.kind = "mapper"

\* ---------------------------------------------------------------- further properties of execute
\* C18: a call that returned has sent exactly one operation request; every
\* operation request was sent on the connection opened by the attempt whose
\* probe reported ready; the connection in use is the one opened by the
\* latest attempt.
C18_OneConnectionOneOperation ==
    /\ lpc = "returned" => Len(ops) = 1
    /\ \A n \in 1..Len(ops) :
          /\ ops[n] \in 1..Len(log)
          /\ log[ops[n]] = "ready"
    /\ conn # 0 => conn = attempts
    /\ lpc \in {"ping", "op"} => conn = attempts

C18_Witness ==
    /\ lpc = "returned"
    /\ attempts >= 3
    /\ ops = <<attempts>>
    /\ \E k \in 1..Len(log) : log[k] = "refused"
    /\ \E k \in 1..Len(log) : log[k] = "notready"

\* C23 as claimed: once an execute call has left an attempt that did not
\* find a ready server it has slept after it, the fifth included: a call
\* that returned after its attempt k found the server ready has slept k-1
\* times, a call that used up its five attempts has slept 5 times when it
\* terminates the process, and a call whose first attempt found the server
\* ready has not slept.
C23_SleepAfterEveryAttempt ==
    /\ lpc \in {"loop", "returned", "panicked"} => sleeps = Cardinality(NotReady)
    /\ lpc = "returned" => sleeps = attempts - 1
    /\ (Exhausted /\ lpc \in {"loop", "panicked"}) => sleeps = MaxAttempts
    /\ (log # << >> /\ log[1] = "ready") => sleeps = 0

\* ---------------------------------------------------------------- properties of bulk_insert
\* C11 as claimed: when the server has observed the end of the request stream
\* (it was not closed early) it has observed every item of the batch exactly
\* once, in order, and a bulk_insert call that returned has returned Ok.
C11_CompleteAndOk ==
    /\ IsPrefix(received, items)
    /\ eos => received = items
    /\ (eos /\ bpc = "returned") => bret = "Ok"

\* C11 amended: as above, and the call returns Ok when the server then
\* answers with success, and the Grpc error when it answers with a failure
\* status; the slot stays empty.
C11_CompleteThenAck ==
    /\ IsPrefix(received, items)
    /\ eos => (received = items /\ chan = << >> /\ bulk_last_err = "None")
    /\ (eos /\ bpc = "returned") =>
          /\ resp = "ok" => bret = "Ok"
          /\ resp = "err" => bret = "Grpc"

C11_Witness ==
    /\ eos
    /\ bpc = "returned"
    /\ bret = "Ok"
    /\ Len(items) > CHANNEL_CAPACITY
    /\ received = items

\* C12: the channel never holds more than 100 items, and no step taken
\* while it holds 100 enqueues an item: the producer enqueues again only
\* after an item was taken.
C12_Backpressure ==
    /\ [](Len(chan) <= CHANNEL_CAPACITY)
    /\ [][Len(chan) >= CHANNEL_CAPACITY => next' = next]_vars

C12_Witness ==
    /\ Len(chan) = CHANNEL_CAPACITY
    /\ ppc = "loop"
    /\ next <= Len(items)
    /\ rx = "open"
    /\ bpc = "await"

\* C13 as claimed (its last clause, which the rest of the claim implies):
\* bulk_insert does not return Ok when fewer than all items were enqueued.
C13_NoSilentTruncation ==
    (bpc = "returned" /\ bret = "Ok") => next > Len(items)

\* C19: the slot is read and Ok or ChannelClosed is returned only after the
\* server's successful response arrived; any return follows a response.
C19_ReturnAfterAck ==
    /\ bpc \in {"read", "returned"} => resp # "none"
    /\ bpc = "read" => resp = "ok"
    /\ bret \in {"Ok", "ChannelClosed"} => resp = "ok"
    /\ bret = "Grpc" => resp = "err"
    /\ bpc # "returned" => bret = "none"

C19_Witness ==
    /\ bpc = "returned"
    /\ bret = "ChannelClosed"
    /\ err_before_resp
    /\ resp = "ok"

\* C22: a bulk_insert call answered with a failure status returns the Grpc
\* error, and ChannelClosed is returned only after a successful response,
\* also when the producer task stored an enqueue failure; no step of the
\* foreground call waits for the producer task; after its first failed
\* enqueue the task has stored ChannelClosed, has stopped, and enqueues
\* nothing any more.
C22_GrpcBeforeChannelClosed ==
    /\ []((bpc = "returned" /\ resp = "err") => bret = "Grpc")
    /\ [](bret = "ChannelClosed" => (resp = "ok" /\ ppc = "failed"))
    /\ []((bpc = "await" /\ resp = "err") => ENABLED BulkAwaitErr)
    /\ []((bpc = "await" /\ resp = "ok") => ENABLED BulkAwaitOk)
    /\ [](bpc = "read" => ENABLED BulkReturn)
    /\ [](ppc = "failed" =>
            /\ next <= Len(items)
            /\ rx = "closed"
            /\ chan = << >>
            /\ (bulk_last_err = "ChannelClosed" \/ bret = "ChannelClosed"))
    /\ [][ppc = "failed" => (ppc' = "failed" /\ next' = next /\ chan' = chan)]_vars

C22_Witness ==
    /\ bpc = "returned"
    /\ resp = "err"
    /\ bret = "Grpc"
    /\ ppc = "failed"
    /\ bulk_last_err = "ChannelClosed"
    /\ err_before_resp
    /\ next \in 2..Len(items)

\* ---------------------------------------------------------------- properties of the streaming client
\* the first element of st that is not a convertible value; Len(st)+1 if none
FirstBad(st) ==
    IF \E n \in 1..Len(st) : st[n] <= 0
    THEN CHOOSE n \in 1..Len(st) : st[n] <= 0 /\ \A m \in 1..(n - 1) : st[m] > 0
    ELSE Len(st) + 1

\* C14: while get consumes the stream its output is the converted values of
\* the elements consumed, in the server's order; it returns Ok with all of
\* them only when the stream has ended; at the first element that is an
\* error status or does not convert it stops and returns that error without
\* a value.
C14_StreamingGet ==
    /\ cpc = "get_loop" =>
          /\ pos <= Len(stream)
          /\ pos < FirstBad(stream)
          /\ output = [n \in 1..pos |-> Converted(stream[n])]
    /\ (cpc = "ready" /\ creq = "get" /\ cret.status = "Ok") =>
          /\ pos = Len(stream)
          /\ FirstBad(stream) = Len(stream) + 1
          /\ cret.value = [n \in 1..Len(stream) |-> Converted(stream[n])]
    /\ (cpc = "ready" /\ creq = "get" /\ cret.status # "Ok") =>
          /\ cret.value = << >>
          /\ pos = 0 => (stream = << >> /\ cret.status = "Grpc")
          /\ pos > 0 =>
                /\ pos = FirstBad(stream)
                /\ pos <= Len(stream)
                /\ cret.status = (IF stream[pos] = -1 THEN "Grpc" ELSE "Conversion")

C14_Witness ==
    /\ cpc = "ready"
    /\ creq = "get"
    /\ Len(stream) = MaxStream
    /\ stream[1] # stream[2]
    /\ cret.status = "Ok"
    /\ Len(cret.value) = MaxStream

\* C15: Client::new makes one connection attempt and returns Transport when
\* it fails, after which there is no client; every operation call sends its
\* request once, and a failure status is returned as Grpc.
C15_NoRetry ==
    /\ connects <= 1
    /\ cpc # "init" => connects = 1
    /\ cpc = "failed" => (new_ret = "Transport" /\ ccalls = 0 /\ sent = 0)
    /\ new_ret = "Transport" => cpc = "failed"
    /\ sent <= 1
    /\ ccalls > 0 => (sent = 1 /\ new_ret = "Ok")
    /\ cpc \in {"cv_wait", "get_wait", "get_loop"} => cret = NoCRet

C15_Witness ==
    /\ cpc = "ready"
    /\ ccalls = MaxClientCalls
    /\ cret = CRetErr("Grpc")
    /\ creq = "create_vertex"
    /\ sent = 1
    /\ connects = 1

====
